---- MODULE Spec2Model ----
(***************************************************************************)
(* Model of favicons.Favicons (src/favicons/_generate.py) and of the path  *)
(* helpers it calls (src/favicons/_util.py).                               *)
(*                                                                         *)
(* One pipeline object over a small filesystem: the configured source      *)
(* file, the output directory with its parent, the output files, and the   *)
(* temporary PNG that svg_to_png makes.  The caller constructs the         *)
(* pipeline, enters and leaves its (async) context, and calls sgenerate    *)
(* or agenerate.  A sequential run is one loop iteration per step; a       *)
(* concurrent run is the asyncio event loop's FIFO                         *)
(* ready queue: one task step per render, one gather done-callback per     *)
(* finished task, then the wake-up of the awaiting agenerate coroutine.    *)
(* SpecMeta adds the metadata methods (html, filenames, formats, json)     *)
(* and draws base_url from BaseUrls.                                       *)
(***************************************************************************)
EXTENDS Naturals, Integers, Sequences, FiniteSets, TLC

\* ---------------------------------------------------------------- bounds
NumFormats == 3      \* size of the catalog (self._formats)
MaxCalls == 3        \* generate calls observed per pipeline

Formats == 1..NumFormats

\* ------------------------------------------------------------- constants
\* File extensions (suffix without the dot), as character sequences.
ExtSvg == <<"s", "v", "g">>
ExtSVG == <<"S", "V", "G">>
ExtPng == <<"p", "n", "g">>
ExtTxt == <<"t", "x", "t">>
Exts == {ExtSvg, ExtSVG, ExtPng, ExtTxt}

\* favicons._constants.SUPPORTED_FORMATS: raster formats plus one vector format.
SUPPORTED_FORMATS ==
    {ExtSvg, ExtPng, <<"j", "p", "g">>, <<"j", "p", "e", "g">>, <<"t", "i", "f", "f">>}

\* str.lower() on the characters that occur in the extensions.
LowerChar(c) ==
    CASE c = "S" -> "s"
      [] c = "V" -> "v"
      [] c = "G" -> "g"
      [] OTHER -> c

lower(s) == [k \in DOMAIN s |-> LowerChar(s[k])]

\* favicons._types.Color.colors: a normalized 3- or 4-channel tuple.
BackgroundColors == {<<0, 0, 0>>, <<10, 20, 30, 40>>}

\* Values of base_url; the constructor's default is "/".
DefaultBaseUrl == <<"/">>
BaseUrls == {DefaultBaseUrl, <<"/", "assets", "/">>}

NoFile == [kind |-> "absent"]
NoRet == [op |-> "none", raised |-> FALSE, at |-> 0, since |-> 0, value |-> <<>>]
NoError == [kind |-> "none", op |-> "none", path |-> "none", who |-> {}]
NoRun == [mode |-> "none"]
NoFuture == [state |-> "none", exc |-> {}]
PendingFuture == [state |-> "pending", exc |-> {}]
ResultFuture == [state |-> "result", exc |-> {}]

VARIABLES
    srcExt,          \* extension of the configured source path
    srcExists,       \* the configured source file exists
    unwritable,      \* descriptors whose src.save() fails (environment)
    parentExists,    \* the output directory's parent exists
    outExists,       \* the output directory exists
    files,           \* output directory content, per descriptor
    tmpExists,       \* the mkstemp file of svg_to_png exists
    tmpCreated,      \* svg_to_png has called mkstemp (history)
    pc,              \* position of the caller / the running operation
    _source,         \* self._source: "orig" or "tmp"
    source,          \* self.source: "unset", "orig" or "tmp"
    _validated,      \* self._validated
    _temp_source,    \* self._temp_source: "None" or "tmp"
    generate,        \* self.generate: "sgenerate" or "agenerate"
    completed,       \* self.completed
    scope,           \* with statement: "out", "in", "ain", "exited", "entry_failed"
    idx,             \* sgenerate: position of the for loop
    ready,           \* event loop: FIFO queue of ready handles
    results,         \* asyncio tasks: per descriptor "pending", "ok", "exc"
    outer,           \* gather's outer future
    nfinished,       \* gather's nfinished
    err,             \* the exception the last operation raised to the caller
    run,             \* the generate call in progress (history)
    runs,            \* finished generate calls (history)
    outChecked,      \* validate_path(output_directory, create=True) has run
    transparent,     \* self.transparent
    colors,          \* self.background_color.colors
    base_url,        \* self.base_url
    created,         \* directories validate_path has made (history)
    unlinks,         \* files _close_temp_source has removed (history)
    ret              \* what the last metadata call returned

vars == <<srcExt, srcExists, unwritable, parentExists, outExists, files,
          tmpExists, tmpCreated, pc, _source, source, _validated,
          _temp_source, generate, completed, scope, idx, ready, results,
          outer, nfinished, err, run, runs, outChecked, transparent, colors,
          base_url, created, unlinks, ret>>

fsVars == <<srcExt, srcExists, unwritable, transparent, colors, base_url>>
loopVars == <<idx, ready, results, outer, nfinished>>

\* ------------------------------------------------------------ filesystem
\* Path.exists() of self._source.
Exists(p) == IF p = "tmp" THEN tmpExists ELSE srcExists

\* Path.suffix of self._source / self.source (mkstemp(suffix=".png")).
Suffix(p) == IF p = "tmp" THEN ExtPng ELSE srcExt

\* PILImage.open succeeds on a raster file; the temporary file holds the
\* PNG bytes svg2png wrote, an .svg/.SVG file holds vector markup.
Decodable(p) == p # "unset" /\ Exists(p) /\ (p = "tmp" \/ lower(srcExt) = ExtPng)

\* validate_path(path, create=True): the two mkdir branches.
\* Path.is_dir() is true only of an existing directory.
MkdirEffect ==
    LET is_dir == outExists
    IN  IF is_dir /\ ~outExists
        THEN [out |-> TRUE, parent |-> TRUE, made |-> {"output_directory"}]
        ELSE IF ~is_dir /\ ~parentExists
             THEN [out |-> outExists, parent |-> TRUE, made |-> {"parent"}]
             ELSE [out |-> outExists, parent |-> parentExists, made |-> {}]

ValidateOutcome_once(op) ==
    IF _validated
    THEN [kind |-> "FaviconNotFoundError", op |-> op, path |-> "source", who |-> {}]
    ELSE IF ~Exists(_source)
    THEN [kind |-> "FaviconNotFoundError", op |-> op, path |-> "source", who |-> {}]
    ELSE IF ~MkdirEffect.out
    THEN [kind |-> "FaviconNotFoundError", op |-> op, path |-> "output_directory", who |-> {}]
    ELSE IF lower(Suffix(_source)) \notin SUPPORTED_FORMATS
    THEN [kind |-> "FaviconNotSupportedError", op |-> op, path |-> "source", who |-> {}]
    ELSE NoError

\* The exception _validate raises in the current state, or NoError.
ValidateOutcome(op) ==
    IF ~Exists(_source)
    THEN [kind |-> "FaviconNotFoundError", op |-> op, path |-> "source", who |-> {}]
    ELSE IF ~MkdirEffect.out
    THEN [kind |-> "FaviconNotFoundError", op |-> op, path |-> "output_directory", who |-> {}]
    ELSE IF lower(Suffix(_source)) \notin SUPPORTED_FORMATS
    THEN [kind |-> "FaviconNotSupportedError", op |-> op, path |-> "source", who |-> {}]
    ELSE NoError

ValidatedAfter_setFirst(op) == TRUE

ValidatedAfter_neverSet(op) == FALSE

\* self._validated after _validate: set on the last line only.
ValidatedAfter(op) == ValidateOutcome(op) = NoError

_validate_outFirst(op) ==
    /\ source' = IF Exists(_source) THEN _source ELSE source
    /\ outChecked' = TRUE
    /\ outExists' = MkdirEffect.out
    /\ parentExists' = MkdirEffect.parent
    /\ created' = created \cup MkdirEffect.made
    /\ _validated' = IF ValidatedAfter(op) THEN TRUE ELSE _validated

\* Favicons._validate: its effect on the object and on the filesystem.
_validate(op) ==
    /\ source' = IF Exists(_source) THEN _source ELSE source
    /\ outChecked' = (outChecked \/ Exists(_source))
    /\ outExists' = IF Exists(_source) THEN MkdirEffect.out ELSE outExists
    /\ parentExists' = IF Exists(_source) THEN MkdirEffect.parent ELSE parentExists
    /\ created' = IF Exists(_source) THEN created \cup MkdirEffect.made ELSE created
    /\ _validated' = IF ValidatedAfter(op) THEN TRUE ELSE _validated

\* ------------------------------------------------------------------ Init
InitPipeline ==
    /\ srcExt \in Exts
    /\ srcExists \in BOOLEAN
    /\ unwritable \in SUBSET Formats
    /\ parentExists \in BOOLEAN
    /\ outExists \in BOOLEAN
    /\ outExists => parentExists
    /\ files = [i \in Formats |-> NoFile]
    /\ tmpExists = FALSE
    /\ tmpCreated = FALSE
    /\ pc = "new"
    /\ _source = "orig"
    /\ source = "unset"
    /\ _validated = FALSE
    /\ _temp_source = "None"
    /\ generate = "sgenerate"
    /\ completed = 0
    /\ scope = "out"
    /\ idx = 0
    /\ ready = <<>>
    /\ results = [i \in Formats |-> "pending"]
    /\ outer = NoFuture
    /\ nfinished = 0
    /\ err = NoError
    /\ run = NoRun
    /\ runs = <<>>
    /\ outChecked = FALSE
    /\ transparent \in BOOLEAN
    /\ colors \in BackgroundColors
    /\ created = {}
    /\ unlinks = 0
    /\ ret = NoRet

Init == InitPipeline /\ base_url = DefaultBaseUrl

\* -------------------------------------------------------------- __init__
\* Favicons._check_source_format: the comparison is case-sensitive.
IsVector == srcExt = ExtSvg

\* Favicons.__init__ with _check_source_format and svg_to_png: mkstemp
\* creates the file, then svg_path.read_bytes() raises when the source is
\* missing.  self._temp_source is left None.
__init__ ==
    /\ pc = "new"
    /\ IF IsVector
       THEN /\ tmpCreated' = TRUE
            /\ tmpExists' = TRUE
            /\ IF srcExists
               THEN /\ _source' = "tmp"
                    /\ pc' = "idle"
                    /\ err' = NoError
               ELSE /\ _source' = _source
                    /\ pc' = "ctor_failed"
                    /\ err' = [kind |-> "FileNotFoundError", op |-> "__init__",
                               path |-> "source", who |-> {}]
       ELSE /\ pc' = "idle"
            /\ err' = NoError
            /\ UNCHANGED <<tmpCreated, tmpExists, _source>>
    /\ _temp_source' = "None"
    /\ UNCHANGED <<fsVars, ret, unlinks, parentExists, outExists, files, source, _validated,
                   generate, completed, scope, loopVars, run, runs, outChecked, created>>

\* ----------------------------------------------------- context managers
\* Favicons._close_temp_source: unlink, FileNotFoundError swallowed.
_close_temp_source ==
    /\ tmpExists' = IF _temp_source # "None" THEN FALSE ELSE tmpExists
    /\ unlinks' = IF _temp_source # "None" /\ tmpExists THEN unlinks + 1 ELSE unlinks

\* Entering a context: _validate, then self.generate is rebound.  When
\* _validate raises, the with statement ends without calling __exit__.
EnterContext(op, strategy, entered) ==
    /\ pc = "idle"
    /\ scope \notin {"in", "ain"}
    /\ _validate(op)
    /\ err' = ValidateOutcome(op)
    /\ IF ValidateOutcome(op) = NoError
       THEN /\ generate' = strategy
            /\ scope' = entered
       ELSE /\ generate' = generate
            /\ scope' = "entry_failed"
    /\ UNCHANGED <<fsVars, ret, unlinks, files, tmpExists, tmpCreated, pc, _source,
                   _temp_source, completed, loopVars, run, runs>>

\* Favicons.__enter__
__enter__ == EnterContext("__enter__", "sgenerate", "in")

__aenter___rebindsSync == EnterContext("__aenter__", "sgenerate", "ain")

\* Favicons.__aenter__
__aenter__ == EnterContext("__aenter__", "agenerate", "ain")

\* Leaving a context: returns None, so an exception of the body propagates.
ExitContext(entered) ==
    /\ pc = "idle"
    /\ scope = entered
    /\ _close_temp_source
    /\ scope' = "exited"
    /\ UNCHANGED <<fsVars, ret, parentExists, outExists, files, tmpCreated, pc,
                   _source, source, _validated, _temp_source, generate,
                   completed, loopVars, err, run, runs, outChecked, created>>

\* Favicons.__exit__
__exit__ == ExitContext("in")

\* Favicons.__aexit__
__aexit__ == ExitContext("ain")

\* ---------------------------------------------------------------- render
\* `((255,),(0,))[self.transparent]`: a tuple indexed by a bool.
AlphaChoices == <<(<<255>>), (<<0>>)>>
BoolIndex(b) == IF b THEN 1 ELSE 0

\* `bg = self.background_color.colors + ((255,),(0,))[self.transparent]`
bg == colors \o AlphaChoices[BoolIndex(transparent) + 1]

RenderedFile_firstFmt(i) ==
    [kind |-> "image", fmt |-> 1, from |-> source, canvas |-> bg, pad |-> bg]

\* The file src.save() writes for descriptor i: the descriptor's dimensions
\* and encoding, from the image opened at self.source, composited on a
\* canvas of colour bg and padded with bg.
RenderedFile(i) ==
    [kind |-> "image", fmt |-> i, from |-> source, canvas |-> bg, pad |-> bg]

\* _generate_single raises: PILImage.open on an undecodable source,
\* PILImage.new("RGBA", ...) on a colour that has not four channels, or
\* src.save on an unwritable target.  All come before `completed += 1`.
RenderFails(i) == ~Decodable(source) \/ Len(bg) # 4 \/ i \in unwritable

_generate_single_countFirst(i) ==
    IF RenderFails(i)
    THEN /\ files' = files
         /\ completed' = completed + 1
    ELSE /\ files' = [files EXCEPT ![i] = RenderedFile(i)]
         /\ completed' = completed + 1

\* Favicons._generate_single
_generate_single(i) ==
    IF RenderFails(i)
    THEN UNCHANGED <<files, completed>>
    ELSE /\ files' = [files EXCEPT ![i] = RenderedFile(i)]
         /\ completed' = completed + 1

RenderError(op, i) ==
    [kind |-> "RenderError", op |-> op, path |-> "none", who |-> {i}]

\* ------------------------------------------------------- history of calls
BeginRun(mode) ==
    [mode |-> mode, validatedBefore |-> _validated, revalidated |-> ~_validated,
     startCompleted |-> completed, filesBefore |-> files,
     attempted |-> {}, written |-> {}, failed |-> {}, calls |-> 0]

Attempt(r, i) ==
    [r EXCEPT !.attempted = @ \cup {i},
              !.written = IF RenderFails(i) THEN @ ELSE @ \cup {i},
              !.failed = IF RenderFails(i) THEN @ \cup {i} ELSE @,
              !.calls = @ + 1]

EndRun(r, e, validatedAfter, endCompleted, filesAfter) ==
    [mode |-> r.mode, validatedBefore |-> r.validatedBefore,
     revalidated |-> r.revalidated, startCompleted |-> r.startCompleted,
     filesBefore |-> r.filesBefore, attempted |-> r.attempted,
     written |-> r.written, failed |-> r.failed, calls |-> r.calls,
     outcome |-> e,
     validatedAfter |-> validatedAfter, endCompleted |-> endCompleted,
     filesAfter |-> filesAfter]

\* `if not self._validated: self._validate()` of sgenerate and agenerate.
\* started is the state a successful check leaves the call in.
EnsureValidated(op, started) ==
    /\ pc = "idle"
    /\ Len(runs) < MaxCalls
    /\ IF _validated
       THEN /\ UNCHANGED <<source, outChecked, outExists, parentExists,
                           _validated, created>>
            /\ started
       ELSE /\ _validate(op)
            /\ IF ValidateOutcome(op) = NoError
               THEN started
               ELSE /\ err' = ValidateOutcome(op)
                    /\ runs' = Append(runs, EndRun(BeginRun(op), ValidateOutcome(op),
                                                   _validated', completed, files))
                    /\ UNCHANGED <<pc, run, loopVars>>
    /\ UNCHANGED <<fsVars, ret, unlinks, files, tmpExists, tmpCreated, _source, _temp_source,
                   generate, completed, scope>>

\* ------------------------------------------------------------- sgenerate
\* Favicons.sgenerate, up to the first iteration of the for loop.
sgenerate ==
    EnsureValidated("sgenerate",
        /\ pc' = "sgen"
        /\ idx' = 1
        /\ run' = BeginRun("sgenerate")
        /\ UNCHANGED <<ready, results, outer, nfinished, err, runs>>)

\* One iteration of `for fmt in self._formats: self._generate_single(fmt)`.
sgenerate_step ==
    /\ pc = "sgen"
    /\ _generate_single(idx)
    /\ IF RenderFails(idx)
       THEN /\ err' = RenderError("sgenerate", idx)
            /\ pc' = "idle"
            /\ runs' = Append(runs, EndRun(Attempt(run, idx), RenderError("sgenerate", idx),
                                           _validated, completed', files'))
            /\ run' = NoRun
            /\ idx' = idx
       ELSE IF idx = NumFormats
       THEN /\ err' = NoError
            /\ pc' = "idle"
            /\ runs' = Append(runs, EndRun(Attempt(run, idx), NoError,
                                           _validated, completed', files'))
            /\ run' = NoRun
            /\ idx' = idx
       ELSE /\ idx' = idx + 1
            /\ run' = Attempt(run, idx)
            /\ UNCHANGED <<err, pc, runs>>
    /\ UNCHANGED <<fsVars, ret, unlinks, parentExists, outExists, tmpExists, tmpCreated,
                   _source, source, _validated, _temp_source, generate, scope,
                   ready, results, outer, nfinished, outChecked, created>>

\* ------------------------------------------------------------- agenerate
Handle(h, i) == [h |-> h, i |-> i]

\* `(self._agenerate_single(fmt) for fmt in self._formats)`: one task per
\* descriptor, in catalog order.
ScheduledTasks_dropLast == [k \in 1..(NumFormats - 1) |-> Handle("step", k)]

ScheduledTasks_reversed == [k \in Formats |-> Handle("step", NumFormats + 1 - k)]

ScheduledTasks == [k \in Formats |-> Handle("step", k)]

\* gather's nfuts: the number of awaitables it was given.
nfuts == Len(ScheduledTasks)

\* Favicons.agenerate, up to `await asyncio.gather(...)`: gather wraps each
\* coroutine in a task, and each new task schedules its first step.
agenerate ==
    EnsureValidated("agenerate",
        /\ pc' = "agen"
        /\ ready' = ScheduledTasks
        /\ results' = [i \in Formats |-> "pending"]
        /\ outer' = PendingFuture
        /\ nfinished' = 0
        /\ run' = BeginRun("agenerate")
        /\ UNCHANGED <<idx, err, runs>>)

\* Favicons._agenerate_single as one task step: the coroutine has no await,
\* so the task finishes in its first step and schedules its done-callback.
_agenerate_single ==
    /\ pc = "agen"
    /\ ready # <<>>
    /\ Head(ready).h = "step"
    /\ LET i == Head(ready).i
       IN  /\ _generate_single(i)
           /\ results' = [results EXCEPT ![i] = IF RenderFails(i) THEN "exc" ELSE "ok"]
           /\ ready' = Append(Tail(ready), Handle("cb", i))
           /\ run' = Attempt(run, i)
    /\ UNCHANGED <<fsVars, ret, unlinks, parentExists, outExists, tmpExists, tmpCreated, pc,
                   _source, source, _validated, _temp_source, generate, scope,
                   idx, outer, nfinished, err, runs, outChecked, created>>

\* The exception gather hands to its outer future when child i has failed.
GatherException(i) == [state |-> "exception", exc |-> {i}]

\* asyncio.gather's done-callback (return_exceptions=False): the first child
\* exception settles the outer future; later callbacks find it done.
gather_done_callback ==
    /\ pc = "agen"
    /\ ready # <<>>
    /\ Head(ready).h = "cb"
    /\ LET i == Head(ready).i
       IN  IF outer # PendingFuture
           THEN /\ ready' = Tail(ready)
                /\ UNCHANGED <<outer, nfinished>>
           ELSE IF results[i] = "exc"
           THEN /\ outer' = GatherException(i)
                /\ ready' = Append(Tail(ready), Handle("wake", 0))
                /\ UNCHANGED nfinished
           ELSE /\ nfinished' = nfinished + 1
                /\ IF nfinished + 1 = nfuts
                   THEN /\ outer' = ResultFuture
                        /\ ready' = Append(Tail(ready), Handle("wake", 0))
                   ELSE /\ outer' = outer
                        /\ ready' = Tail(ready)
    /\ UNCHANGED <<fsVars, ret, unlinks, parentExists, outExists, files, tmpExists, tmpCreated,
                   pc, _source, source, _validated, _temp_source, generate,
                   completed, scope, idx, results, err, run, runs, outChecked, created>>

\* agenerate resumes from the await with the outer future's outcome.
agenerate_resume ==
    /\ pc = "agen"
    /\ ready # <<>>
    /\ Head(ready).h = "wake"
    /\ ready' = Tail(ready)
    /\ pc' = "idle"
    /\ err' = IF outer = ResultFuture THEN NoError
              ELSE [kind |-> "RenderError", op |-> "agenerate", path |-> "none",
                    who |-> outer.exc]
    /\ runs' = Append(runs, EndRun(run, err', _validated, completed, files))
    /\ run' = NoRun
    /\ UNCHANGED <<fsVars, ret, unlinks, parentExists, outExists, files, tmpExists, tmpCreated,
                   _source, source, _validated, _temp_source, generate,
                   completed, scope, idx, results, outer, nfinished, outChecked, created>>

Next ==
    \/ __init__
    \/ __enter__
    \/ __exit__
    \/ __aenter__
    \/ __aexit__
    \/ sgenerate
    \/ sgenerate_step
    \/ agenerate
    \/ _agenerate_single
    \/ gather_done_callback
    \/ agenerate_resume

Spec == Init /\ [][Next]_vars

\* -------------------------------------------------------------- metadata
\* The catalog generate_icon_types() yields: per descriptor its link
\* relation, its encoding and its file name (str(fmt)).
Catalog ==
    [i \in Formats |->
        [rel |-> "icon", image_fmt |-> "png",
         name |-> <<"favicon-", ToString(i), ".png">>]]

\* HTML_LINK.format(rel=..., type=..., href=...)
HTML_LINK(rel, type, href) == [rel |-> rel, type |-> type, href |-> href]

\* Favicons.html_gen, as the tuple html() makes of it.
html_gen ==
    [i \in Formats |->
        HTML_LINK(Catalog[i].rel, <<"image/", Catalog[i].image_fmt>>,
                  base_url \o Catalog[i].name)]

filenames_gen_noPrefix(prefix) == [i \in Formats |-> Catalog[i].name]

\* Favicons.filenames_gen, as the tuple filenames() makes of it.
filenames_gen(prefix) ==
    [i \in Formats |->
        IF prefix THEN base_url \o Catalog[i].name ELSE Catalog[i].name]

\* Favicons.formats: tuple(f.dict() for f in self._formats)
formats_tuple == [i \in Formats |-> Catalog[i]]

\* Favicons.json: _json.dumps(self.formats())
json_dumps == [encoding |-> "json", of |-> formats_tuple]

MetaReads_source(op) == {"_formats", "base_url", "source"}

\* The attributes of self a metadata method reads.
MetaReads(op) ==
    IF op \in {"html", "filenames_prefix"} THEN {"_formats", "base_url"} ELSE {"_formats"}

\* self.source and self.output_directory exist only once _validate has
\* assigned them; reading them before raises AttributeError.
HasAttr(a) ==
    CASE a = "source" -> source # "unset"
      [] a = "output_directory" -> outChecked /\ outExists
      [] OTHER -> TRUE

MetaRaises(op) == \E a \in MetaReads(op) : ~HasAttr(a)

\* A metadata call on the constructed pipeline, outside any generate call.
MetaCall(op, value) ==
    /\ pc = "idle"
    /\ ret' = [op |-> op, raised |-> MetaRaises(op), at |-> Len(runs),
               since |-> IF ret.op = op THEN ret.since ELSE Len(runs),
               value |-> IF MetaRaises(op) THEN <<>> ELSE value]
    /\ UNCHANGED <<fsVars, unlinks, parentExists, outExists, files, tmpExists,
                   tmpCreated, pc, _source, source, _validated, _temp_source,
                   generate, completed, scope, loopVars, err, run, runs,
                   outChecked, created>>

\* Favicons.html
html == MetaCall("html", html_gen)

\* Favicons.filenames
filenames ==
    \E prefix \in BOOLEAN :
        MetaCall(IF prefix THEN "filenames_prefix" ELSE "filenames",
                 filenames_gen(prefix))

\* Favicons.formats
formats == MetaCall("formats", formats_tuple)

\* Favicons.json
json == MetaCall("json", json_dumps)

\* The pipeline with its metadata methods, over every base_url.
InitMeta ==
    /\ InitPipeline
    /\ base_url \in BaseUrls
    /\ transparent
    /\ colors = <<0, 0, 0>>
    /\ unwritable = {}

NextMeta == Next \/ html \/ filenames \/ formats \/ json

SpecMeta == InitMeta /\ [][NextMeta]_vars

\* ---------------------------------------------------------------- typing
FileContents ==
    {NoFile} \cup [kind : {"image"}, fmt : Formats, from : {"orig", "tmp", "unset"},
                    canvas : {bg}, pad : {bg}]

TypeOK ==
    /\ srcExt \in Exts
    /\ srcExists \in BOOLEAN
    /\ unwritable \subseteq Formats
    /\ parentExists \in BOOLEAN
    /\ outExists \in BOOLEAN
    /\ files \in [Formats -> FileContents]
    /\ tmpExists \in BOOLEAN
    /\ tmpCreated \in BOOLEAN
    /\ pc \in {"new", "idle", "ctor_failed", "sgen", "agen"}
    /\ _source \in {"orig", "tmp"}
    /\ source \in {"unset", "orig", "tmp"}
    /\ _validated \in BOOLEAN
    /\ _temp_source \in {"None", "tmp"}
    /\ generate \in {"sgenerate", "agenerate"}
    /\ completed \in 0..(MaxCalls * NumFormats)
    /\ scope \in {"out", "in", "ain", "exited", "entry_failed"}
    /\ idx \in 0..NumFormats
    /\ Len(ready) <= NumFormats + 1
    /\ results \in [Formats -> {"pending", "ok", "exc"}]
    /\ nfinished \in 0..NumFormats
    /\ Len(runs) <= MaxCalls
    /\ transparent \in BOOLEAN
    /\ colors \in BackgroundColors
    /\ base_url \in BaseUrls
    /\ created \subseteq {"parent", "output_directory"}
    /\ unlinks \in 0..1

\* ---------------------------------------------------------------- claims
Min(S) == CHOOSE x \in S : \A y \in S : x <= y

ValidationErrors == {"FaviconNotFoundError", "FaviconNotSupportedError"}
EntryPoints == {"__enter__", "__aenter__", "sgenerate", "agenerate"}

Finished == {runs[k] : k \in DOMAIN runs}
NoOutput == \A i \in Formats : files[i] = NoFile

\* C1: with an .svg source the temporary bitmap exists before any render
\* runs, and once the context has been left through __exit__ or __aexit__
\* the temporary file is absent from the filesystem.
C1_TempAbsentAfterTeardown ==
    (IsVector /\ pc \notin {"new", "ctor_failed"}) =>
        /\ tmpCreated
        /\ scope = "exited" => ~tmpExists

\* C2 (as stated): a failed concurrent run has attempted every descriptor
\* and surfaces all of its failures together.
C2_FailuresAggregated ==
    \A r \in Finished :
        (r.mode = "agenerate" /\ r.outcome.kind = "RenderError") =>
            /\ r.attempted = Formats
            /\ r.outcome.who = r.failed

\* C2 (amended): in a concurrent run every scheduled render runs to
\* completion or failure before the outer future settles and before the
\* caller sees anything; the successful renders are written and counted;
\* the caller then gets the exception of the first failing descriptor in
\* catalog order alone.
C2_FirstFailureAfterAllSettle ==
    /\ (pc = "agen" /\ outer # PendingFuture) =>
           \A i \in Formats : results[i] # "pending"
    /\ \A r \in Finished :
        (r.mode = "agenerate" /\ r.outcome.kind = "RenderError") =>
            /\ r.attempted = Formats
            /\ r.failed # {}
            /\ r.outcome.who = {Min(r.failed)}
            /\ r.endCompleted = r.startCompleted + Cardinality(Formats \ r.failed)
            /\ \A i \in Formats :
                   r.filesAfter[i] = IF i \in r.failed THEN r.filesBefore[i]
                                     ELSE RenderedFile(i)

C2_Witness ==
    \E r \in Finished :
        /\ r.mode = "agenerate"
        /\ r.outcome.kind = "RenderError"
        /\ Cardinality(r.failed) >= 2
        /\ r.written # {}

\* C3: a sequential run renders in catalog order and stops at the first
\* failing descriptor k: descriptors 1..k-1 were rendered and written, k was
\* attempted, none after k was touched, and completed grew by k-1.
C3_SequentialFailFast ==
    /\ pc = "sgen" => run.attempted = 1..(idx - 1) /\ run.written = run.attempted
    /\ \A r \in Finished :
        (r.mode = "sgenerate" /\ r.outcome.kind = "RenderError") =>
            LET k == Min(r.outcome.who)
            IN  /\ r.outcome.who = {k}
                /\ r.attempted = 1..k
                /\ r.written = 1..(k - 1)
                /\ r.endCompleted = r.startCompleted + (k - 1)
                /\ \A i \in Formats :
                       r.filesAfter[i] = IF i < k THEN RenderedFile(i)
                                         ELSE r.filesBefore[i]

C3_Witness ==
    \E r \in Finished :
        /\ r.mode = "sgenerate"
        /\ r.outcome.kind = "RenderError"
        /\ r.outcome.who = {2}
        /\ r.startCompleted = 0

\* C4 (as stated): a sequential and a concurrent run on the same inputs
\* write the same files and add the same amount to completed.
C4_SameEndState ==
    \A r, q \in Finished :
        (r.mode = "sgenerate" /\ q.mode = "agenerate") =>
            /\ r.written = q.written
            /\ r.endCompleted - r.startCompleted = q.endCompleted - q.startCompleted

\* C4 (amended): when no render fails, a sequential and a concurrent run on
\* the same inputs end with the same output files and add the same amount
\* to completed; when a render fails, the files of the sequential run are a
\* subset of those of the concurrent run.
C4_SameEndStateWhenNoRenderFails ==
    \A r, q \in Finished :
        (r.mode = "sgenerate" /\ q.mode = "agenerate") =>
            /\ r.written \subseteq q.written
            /\ (r.failed = {} /\ q.failed = {}) =>
                   /\ r.written = q.written
                   /\ r.filesAfter = q.filesAfter
                   /\ r.outcome.kind = q.outcome.kind
                   /\ r.endCompleted - r.startCompleted
                          = q.endCompleted - q.startCompleted

C4_Witness ==
    \E r, q \in Finished :
        /\ r.mode = "sgenerate" /\ q.mode = "agenerate"
        /\ r.outcome = NoError /\ q.outcome = NoError
        /\ r.written = Formats /\ q.written = Formats

\* C5: once validate_path(output_directory, create=True) has run, the
\* output directory exists, and validation does not fail with the
\* path-not-found error on the output directory.
C5_OutputDirCreated ==
    outChecked =>
        /\ outExists
        /\ ~(err.kind = "FaviconNotFoundError" /\ err.path = "output_directory")

\* C6: for an existing source with an unsupported extension, every operation
\* that validates fails with FaviconNotSupportedError and writes no file.
C6_UnsupportedFormatError ==
    (srcExists /\ lower(srcExt) \notin SUPPORTED_FORMATS /\ err.op \in EntryPoints) =>
        /\ err.kind = "FaviconNotSupportedError"
        /\ NoOutput

\* C7: no render runs before validation has succeeded, and a generate call
\* whose validation fails ends with nothing attempted, completed and the
\* output files unchanged and _validated still false.
C7_NoRenderBeforeValidation ==
    /\ pc \in {"sgen", "agen"} =>
           /\ _validated
           /\ source = _source /\ Exists(source) /\ outExists
           /\ lower(Suffix(source)) \in SUPPORTED_FORMATS
    /\ ~_validated => (completed = 0 /\ NoOutput)
    /\ \A r \in Finished :
        /\ r.attempted # {} => r.validatedAfter
        /\ r.outcome.kind \in ValidationErrors =>
               /\ r.attempted = {}
               /\ r.endCompleted = r.startCompleted
               /\ r.filesAfter = r.filesBefore
               /\ ~r.validatedBefore
               /\ ~r.validatedAfter

C7_Witness ==
    /\ \E r \in Finished : r.mode = "sgenerate" /\ r.outcome.kind \in ValidationErrors
    /\ \E r \in Finished : r.mode = "agenerate" /\ r.outcome.kind \in ValidationErrors

\* C8: once created, the temporary rasterized source is gone whenever the
\* with statement is over, be it through __exit__/__aexit__ or through a
\* validation failure in __enter__/__aenter__.
C8_TempDeletedOnEveryExit ==
    (tmpCreated /\ scope \in {"exited", "entry_failed"}) => ~tmpExists

\* C9: the vector source is rasterized only after validation has succeeded.
C9_RasterizeAfterValidation ==
    tmpCreated => _validated

\* C10: a generate call that follows a completed run does not validate
\* again, renders every descriptor, completes, leaves the output files as
\* the previous run left them, and adds the catalog size to completed.
C10_RerunRepeatsFullRun ==
    \A k \in DOMAIN runs :
        (k > 1 /\ runs[k - 1].outcome = NoError) =>
            /\ ~runs[k].revalidated
            /\ runs[k].attempted = Formats
            /\ runs[k].outcome = NoError
            /\ runs[k].filesBefore = runs[k - 1].filesAfter
            /\ runs[k].filesAfter = runs[k - 1].filesAfter
            /\ \A i \in Formats : runs[k].filesAfter[i] = RenderedFile(i)
            /\ runs[k].endCompleted = runs[k].startCompleted + NumFormats
            /\ runs[k].endCompleted = runs[k - 1].startCompleted + 2 * NumFormats

C10_Witness ==
    /\ Len(runs) >= 2
    /\ runs[1].outcome = NoError
    /\ runs[2].outcome = NoError
    /\ runs[2].mode = "sgenerate"
    /\ completed = 2 * NumFormats

RECURSIVE WrittenUpTo(_)
WrittenUpTo(k) ==
    IF k = 0 THEN 0 ELSE WrittenUpTo(k - 1) + Cardinality(runs[k].written)

WrittenSoFar ==
    WrittenUpTo(Len(runs)) + (IF pc \in {"sgen", "agen"} THEN Cardinality(run.written) ELSE 0)

\* C11: completed equals the number of variant files written so far in
\* every reachable state, a concurrent run whose renders all succeed adds
\* exactly the catalog size, and no step decreases completed.
C11_CompletedCountsWrites ==
    /\ [](/\ completed = WrittenSoFar
          /\ \A r \in Finished :
                 (r.mode = "agenerate" /\ r.outcome = NoError) =>
                     r.endCompleted = r.startCompleted + NumFormats)
    /\ [][completed' >= completed]_vars

C11_Witness ==
    \E r \in Finished :
        /\ r.mode = "agenerate"
        /\ r.outcome = NoError
        /\ r.startCompleted > 0
        /\ completed = r.startCompleted + NumFormats

\* C12: after a generate call that returns without error the renderer has
\* been invoked exactly once per catalog descriptor, and every descriptor's
\* output file exists with that descriptor's dimensions and encoding.
C12_EveryDescriptorRenderedOnce ==
    \A r \in Finished :
        r.outcome = NoError =>
            /\ r.attempted = Formats
            /\ r.calls = NumFormats
            /\ \A i \in Formats :
                   /\ r.filesAfter[i].kind = "image"
                   /\ r.filesAfter[i].fmt = i
                   /\ files[i] = r.filesAfter[i]

C12_Witness ==
    /\ \E r \in Finished : r.mode = "sgenerate" /\ r.outcome = NoError
    /\ \E r \in Finished : r.mode = "agenerate" /\ r.outcome = NoError

\* C15: once the context has been left, an owned temporary file has been
\* deleted exactly once.
C15_TempDeletedExactlyOnce ==
    (scope = "exited" /\ tmpCreated) => unlinks = 1

\* C16: entering a context of an already validated pipeline validates again
\* successfully, creates no directory, changes nothing on the filesystem and
\* leaves _validated true; no step creates a directory when the source and
\* the output directory exist; no step resets _validated.
C16_ValidationIdempotent ==
    /\ [][(_validated /\ scope' # scope /\ scope' \in {"in", "ain", "entry_failed"}) =>
              /\ scope' # "entry_failed"
              /\ err' = NoError
              /\ _validated'
              /\ outExists' = outExists
              /\ parentExists' = parentExists
              /\ created' = created
              /\ files' = files
              /\ tmpExists' = tmpExists]_vars
    /\ [][(Exists(_source) /\ outExists) =>
              (created' = created /\ outExists' /\ parentExists')]_vars
    /\ [][_validated => _validated']_vars

C16_Witness ==
    /\ Len(runs) >= 1
    /\ runs[1].revalidated
    /\ runs[1].validatedAfter
    /\ scope \in {"in", "ain"}

\* C17: the background colour of every render is the RGB channels of the
\* background followed by one alpha channel, 255 when transparent is false
\* and 0 when it is true.
C17_BackgroundRGBA ==
    pc \in {"sgen", "agen"} =>
        bg = SubSeq(colors, 1, 3) \o <<IF transparent THEN 0 ELSE 255>>

\* C18: with a missing source, validation fails with the path-not-found
\* error on the source and has neither looked at nor created any directory;
\* the unsupported-format error is raised only after the output directory
\* step has run.
C18_SourceCheckedFirst ==
    /\ (_source = "orig" /\ ~srcExists) =>
           /\ created = {}
           /\ ~outChecked
           /\ err.op \in EntryPoints =>
                  (err.kind = "FaviconNotFoundError" /\ err.path = "source")
    /\ err.kind = "FaviconNotSupportedError" => (outChecked /\ outExists)
    /\ created # {} => outChecked

C18_Witness ==
    /\ srcExists
    /\ lower(srcExt) \notin SUPPORTED_FORMATS
    /\ created = {"parent"}
    /\ err.kind \in ValidationErrors
    /\ NoOutput

\* C19: a source that validation accepts as the vector format has been
\* rasterized, so no render opens a vector file.
C19_VectorAlwaysRasterized ==
    /\ (_validated /\ lower(srcExt) = ExtSvg) => _source = "tmp"
    /\ pc \in {"sgen", "agen"} => ~(source = "orig" /\ lower(srcExt) = ExtSvg)

\* C20: generate is sgenerate on a fresh pipeline and inside a context
\* entered with __enter__, agenerate inside a context entered with
\* __aenter__, and only a successful context entry changes it.
C20_GenerateFollowsContext ==
    /\ [](/\ scope = "out" => generate = "sgenerate"
          /\ scope = "in" => generate = "sgenerate"
          /\ scope = "ain" => generate = "agenerate")
    /\ [][generate' # generate => (scope' # scope /\ scope' \in {"in", "ain"})]_vars

C20_Witness ==
    /\ scope = "exited"
    /\ generate = "agenerate"
    /\ \E r \in Finished : r.outcome = NoError

\* C13: the link markup and the prefixed file name listing agree position
\* by position: each href equals the prefixed file name of the same
\* descriptor, which is base_url followed by the descriptor's file name.
C13_LinksAgreeWithFilenames ==
    /\ (ret.op = "html" /\ ~ret.raised) =>
           /\ Len(ret.value) = NumFormats
           /\ \A i \in Formats :
                  /\ ret.value[i].href = filenames_gen(TRUE)[i]
                  /\ ret.value[i].href = base_url \o Catalog[i].name
    /\ (ret.op = "filenames_prefix" /\ ~ret.raised) =>
           /\ Len(ret.value) = NumFormats
           /\ \A i \in Formats :
                  /\ ret.value[i] = html_gen[i].href
                  /\ ret.value[i] = base_url \o Catalog[i].name

C13_Witness ==
    /\ ret.op = "filenames_prefix"
    /\ ~ret.raised
    /\ base_url # DefaultBaseUrl
    /\ ret.value[NumFormats] = html_gen[NumFormats].href

MetaStep == ret'.op # ret.op \/ ret'.at # ret.at \/ ret'.since # ret.since

\* C14: a metadata call never raises, whatever the lifecycle state; it
\* leaves _validated, completed, the temporary source and the output
\* directory (and the rest of the pipeline) unchanged; and a call returns
\* what the previous call of the same method returned, generate calls in
\* between or not.
C14_MetadataIndependent ==
    /\ [](~ret.raised)
    /\ [][MetaStep =>
              UNCHANGED <<_validated, completed, tmpExists, tmpCreated, files,
                          outExists, parentExists, created, source, _source,
                          generate, scope, pc, err, runs>>]_vars
    /\ [][(ret'.op = ret.op /\ ret.op # "none") => ret'.value = ret.value]_vars

C14_Witness ==
    /\ ret.op = "html"
    /\ ~ret.raised
    /\ ret.since = 0
    /\ ret.at >= 1
    /\ completed > 0
====
